---- MODULE Spec2Model ----
(***************************************************************************)
(* Model of SupMat_A1_A2.py: the observation store built from the raw mote *)
(* logs, AllData.identify_location (algorithm 1), AllData.smooth_location  *)
(* (algorithm 2) and the main per-person loop that drives them.            *)
(*                                                                         *)
(* Powers are integers in units of 10^-11 mW, so that the threshold        *)
(* 3.16 * 10^-9 mW is 316.  A quotient x / w_number_datapoints is kept as  *)
(* the numerator x over the common denominator w_number_datapoints; the    *)
(* comparisons of the code are made by cross-multiplication (exact         *)
(* arithmetic, floating point rounding is not modelled).                   *)
(***************************************************************************)
EXTENDS Integers, Sequences, FiniteSets, TLC

VARIABLES
    sequences,   \* AllData.sequences: person id -> (t -> Signals)
    locations,   \* AllData.locations: person id -> (t -> room id)
    pc,          \* position of the program
    todo,        \* persons the main loop has still to process
    person,      \* i of the main loop
    tstep,       \* t of the inner for loops
    cnt,         \* cnt of the smoothing loop
    ret,         \* the last call made: its arguments and what it returned
    smoothed,    \* history: persons smooth_location has been called on
    corrected    \* history: some smoothing pass of the run counted a correction

vars == <<sequences, locations, pc, todo, person, tstep, cnt, ret, smoothed, corrected>>

\* ------------------------------------------------------------------ bounds

\* number of timestamps of the processed range (range(600,3000) in the source)
RangeLen == 6
\* number of lines read from the raw mote files
MaxRecords == 3
\* number of Signal objects handed to Signals.add_signal by a caller
MaxSignals == 3

\* ------------------------------------------------------------- constants

\* Python's None (room ids are non-negative integers)
None == -1
\* THRESHOLD = 3.16 * (10**-9) mW, in units of 10^-11 mW
THRESHOLD == 316
\* sender ids below this are mobile motes, the others stationary motes
MOBILE_CUTOFF == 10000

\* the persons of the master file
Receivers == {1, 2}
\* the mobile motes that occur as senders (3 has no file of its own)
Motes == {1, 2, 3}
\* the stationary motes (rooms)
Beacons == {10050, 10051}
\* linear powers of stationary signals
Powers == {100, 500}
\* room ids a location can hold: 0 is "no room"
RoomIds == {0} \cup Beacons

\* the timestamps the main loop processes
Range == 0 .. (RangeLen - 1)
\* the timestamps of the raw mote files handed to identify_location by a caller
Times == {0, 1}

\* (True,False,True,True), (True,True,False,True) of the main loop
DefaultPatterns == << <<TRUE, FALSE, TRUE, TRUE>>, <<TRUE, TRUE, FALSE, TRUE>> >>
\* the kernel of the main loop
DefaultKernel == << <<-2, 1>>, <<-1, 2>>, <<0, 4>>, <<1, 2>>, <<2, 1>> >>

\* the empty dict
EmptyDict == <<>>

\* --------------------------------------------------------- the data model

Signal_mob(obj, global_time, receiver_id, sender_id) ==
    [obj |-> obj, TYPE |-> "mobile", global_time |-> global_time,
     receiver_id |-> receiver_id, sender_id |-> sender_id, power |-> 0]

\* power stands for convert_rssi_to_power(convert_reading_to_rssi(strength))
Signal_sta(obj, global_time, receiver_id, sender_id, power) ==
    [obj |-> obj, TYPE |-> "stationary", global_time |-> global_time,
     receiver_id |-> receiver_id, sender_id |-> sender_id, power |-> power]

Signals(global_time, receiver_id) ==
    [global_time |-> global_time, receiver_id |-> receiver_id,
     mobile |-> <<>>, stationary |-> <<>>]

InSeq(x, s) == \E k \in 1 .. Len(s) : s[k] = x

\* Signals.add_signal: exit is TRUE when the code calls sys.exit()
add_signal(box, signal) ==
    IF box.receiver_id # signal.receiver_id THEN [exit |-> TRUE, box |-> box]
    ELSE IF box.global_time # signal.global_time THEN [exit |-> TRUE, box |-> box]
    ELSE IF signal.TYPE = "mobile" THEN
        [exit |-> FALSE,
         box |-> IF InSeq(signal, box.mobile) THEN box
                 ELSE [box EXCEPT !.mobile = Append(@, signal)]]
    ELSE IF signal.TYPE = "stationary" THEN
        [exit |-> FALSE,
         box |-> IF InSeq(signal, box.stationary) THEN box
                 ELSE [box EXCEPT !.stationary = Append(@, signal)]]
    ELSE [exit |-> TRUE, box |-> box]

\* Signals.return_neighbor_ids
Signals_return_neighbor_ids(box) ==
    [k \in 1 .. Len(box.mobile) |-> box.mobile[k].sender_id]

\* Signals.return_nearest_rooms: sender id -> power, a later signal of the same
\* sender overwrites an earlier one
Signals_return_nearest_rooms(box) ==
    LET ids == {box.stationary[k].sender_id : k \in 1 .. Len(box.stationary)}
        last(r) == CHOOSE k \in 1 .. Len(box.stationary) :
                       /\ box.stationary[k].sender_id = r
                       /\ \A m \in (k + 1) .. Len(box.stationary) :
                              box.stationary[m].sender_id # r
    IN  [r \in ids |-> box.stationary[last(r)].power]

\* Receiver_sequence.return_neighbor_ids
return_neighbor_ids(seq, t) ==
    IF t \in DOMAIN seq THEN Signals_return_neighbor_ids(seq[t]) ELSE <<>>

\* Receiver_sequence.return_nearest_rooms
return_nearest_rooms(seq, t) ==
    IF t \in DOMAIN seq THEN Signals_return_nearest_rooms(seq[t]) ELSE EmptyDict

\* d[k] = v of a dict
Put(d, k, v) == (k :> v) @@ d

\* number of Signal objects a store holds
RECURSIVE SumOver(_, _)
SumOver(f, S) ==
    IF S = {} THEN 0
    ELSE LET x == CHOOSE y \in S : TRUE IN f[x] + SumOver(f, S \ {x})

NumSignals(store) ==
    LET perBox(seq) == [t \in DOMAIN seq |-> Len(seq[t].mobile) + Len(seq[t].stationary)]
        perSeq == [r \in DOMAIN store |-> SumOver(perBox(store[r]), DOMAIN store[r])]
    IN  SumOver(perSeq, DOMAIN store)

\* Receiver_sequence.add_signals: exit is TRUE when the validity check fails
add_signals(receiver_id, seq, box) ==
    IF receiver_id # box.receiver_id THEN [exit |-> TRUE, seq |-> seq]
    ELSE [exit |-> FALSE, seq |-> Put(seq, box.global_time, box)]

\* read_person_to_person_file, one line of the file of receiver_id: the Signals
\* object of cur_t is created when missing, the Signal object is a new object
read_line(store, receiver_id, cur_t, cur_id, power) ==
    LET seq == store[receiver_id]
        box == IF cur_t \in DOMAIN seq THEN seq[cur_t] ELSE Signals(cur_t, receiver_id)
        obj == Len(box.mobile) + Len(box.stationary) + 1
        signal == IF cur_id < MOBILE_CUTOFF
                  THEN Signal_mob(obj, cur_t, receiver_id, cur_id)
                  ELSE Signal_sta(obj, cur_t, receiver_id, cur_id, power)
        added == add_signal(box, signal)
        stored == add_signals(receiver_id, seq, added.box)
    IN  [exit |-> added.exit \/ stored.exit,
         store |-> IF added.exit \/ stored.exit THEN store
                   ELSE [store EXCEPT ![receiver_id] = stored.seq]]

\* ------------------------------------------------- identify_location

MaxOf(S) == CHOOSE x \in S : \A y \in S : y <= x

\* contacts: t_cur -> [i] + neighbours, for the t_cur that have a Signals object
contacts_of(store, i, t, t_w_list) ==
    LET present == {t + t_w_list[k][1] : k \in 1 .. Len(t_w_list)} \cap DOMAIN store[i]
    IN  [t_cur \in present |-> <<i>> \o return_neighbor_ids(store[i], t_cur)]

\* the weight the loops over t_w_list leave behind: that of the last entry whose
\* offset leads from t to t_cur
weight_of(t_w_list, t, t_cur) ==
    t_w_list[MaxOf({k \in 1 .. Len(t_w_list) : t_cur - t_w_list[k][1] = t})][2]

w_number_datapoints_of(contacts, t_w_list, t) ==
    SumOver([t_cur \in DOMAIN contacts |->
                Len(contacts[t_cur]) * weight_of(t_w_list, t, t_cur)],
            DOMAIN contacts)

\* self.sequences[c] raises KeyError for a contact that has no sequence
raises_KeyError(store, contacts) ==
    \E t_cur \in DOMAIN contacts : \E k \in 1 .. Len(contacts[t_cur]) :
        contacts[t_cur][k] \notin DOMAIN store

\* x / float(w_number_datapoints) raises ZeroDivisionError
raises_ZeroDivisionError(store, contacts, w_number_datapoints) ==
    /\ w_number_datapoints = 0
    /\ \E t_cur \in DOMAIN contacts : \E k \in 1 .. Len(contacts[t_cur]) :
           /\ contacts[t_cur][k] \in DOMAIN store
           /\ DOMAIN return_nearest_rooms(store[contacts[t_cur][k]], t_cur) # {}

RECURSIVE SumSeq(_, _)
SumSeq(f, n) == IF n = 0 THEN 0 ELSE f[n] + SumSeq(f, n - 1)

\* data[t_cur]: room -> sum over the contacts c of power_c(room) * weight, the
\* numerators over w_number_datapoints
data_of(store, contacts, t_w_list, t) ==
    [t_cur \in DOMAIN contacts |->
        LET cs == contacts[t_cur]
            weight == weight_of(t_w_list, t, t_cur)
            rooms(k) == return_nearest_rooms(store[cs[k]], t_cur)
            seen == UNION {DOMAIN rooms(k) : k \in 1 .. Len(cs)}
        IN  [r \in seen |->
                SumSeq([k \in 1 .. Len(cs) |->
                           IF r \in DOMAIN rooms(k) THEN rooms(k)[r] * weight ELSE 0],
                       Len(cs))]]

\* signals: room -> sum of the partial signal strengths
signals_of(data) ==
    LET seen == UNION {DOMAIN data[t_cur] : t_cur \in DOMAIN data}
    IN  [r \in seen |->
            SumOver([t_cur \in DOMAIN data |->
                        IF r \in DOMAIN data[t_cur] THEN data[t_cur][r] ELSE 0],
                    DOMAIN data)]

StrongerOrEqual(signal, max_signal) == signal >= max_signal

\* signals[r] > max_signal
Stronger(signal, max_signal) == signal > max_signal

\* the loop that finds the strongest signal, over the rooms in the order the
\* dict yields them
RECURSIVE Strongest(_, _, _, _, _)
Strongest(signals, order, k, max_id, max_signal) ==
    IF k > Len(order) THEN [max_id |-> max_id, max_signal |-> max_signal]
    ELSE IF Stronger(signals[order[k]], max_signal)
         THEN Strongest(signals, order, k + 1, order[k], signals[order[k]])
         ELSE Strongest(signals, order, k + 1, max_id, max_signal)

\* max_signal < THRESHOLD, max_signal being max_num / w_number_datapoints (0.0
\* when no room was seen)
BelowThreshold(max_num, w_number_datapoints) ==
    IF w_number_datapoints = 0 THEN 0 < THRESHOLD
    ELSE max_num < THRESHOLD * w_number_datapoints

\* the orders in which a dict may yield its keys
Orders(S) ==
    {o \in [1 .. Cardinality(S) -> S] : \A a, b \in 1 .. Cardinality(S) : o[a] = o[b] => a = b}

\* identify_location(i, t, t_w_list), the dict signals yielding its keys in order
identify_location(store, i, t, t_w_list, order) ==
    LET contacts == contacts_of(store, i, t, t_w_list)
        w == w_number_datapoints_of(contacts, t_w_list, t)
    IN  IF raises_KeyError(store, contacts) \/ raises_ZeroDivisionError(store, contacts, w)
        THEN [raised |-> TRUE, max_id |-> 0]
        ELSE LET signals == signals_of(data_of(store, contacts, t_w_list, t))
                 best == Strongest(signals, order, 1, 0, 0)
             IN  [raised |-> FALSE,
                  max_id |-> IF BelowThreshold(best.max_signal, w) THEN 0 ELSE best.max_id]

\* the keys of the dict signals of identify_location(i, t, t_w_list)
signal_rooms(store, i, t, t_w_list) ==
    LET contacts == contacts_of(store, i, t, t_w_list)
    IN  IF raises_KeyError(store, contacts) THEN {}
        ELSE DOMAIN signals_of(data_of(store, contacts, t_w_list, t))

\* --------------------------------------------------- smooth_location

\* walk without the check "r2 == r1"
RECURSIVE walk_same_room(_, _, _, _, _, _)
walk_same_room(loc, t, p, t_add, r1, r2) ==
    IF t_add = Len(p) THEN [flag |-> FALSE, r1 |-> r1]
    ELSE IF (t + t_add) \notin DOMAIN loc THEN [flag |-> TRUE, r1 |-> r1]
    ELSE LET room == loc[t + t_add]
         IN  IF p[t_add + 1]
             THEN LET n1 == IF r1 = None THEN room ELSE r1
                  IN  IF n1 # room THEN [flag |-> TRUE, r1 |-> n1]
                      ELSE walk_same_room(loc, t, p, t_add + 1, n1, r2)
             ELSE LET n2 == IF r2 = None THEN room ELSE r2
                  IN  IF n2 # room THEN [flag |-> TRUE, r1 |-> r1]
                      ELSE walk_same_room(loc, t, p, t_add + 1, r1, n2)

\* walk that steps over a missing timestamp instead of giving the pattern up
RECURSIVE walk_over_gap(_, _, _, _, _, _)
walk_over_gap(loc, t, p, t_add, r1, r2) ==
    IF t_add = Len(p) THEN [flag |-> FALSE, r1 |-> r1]
    ELSE IF (t + t_add) \notin DOMAIN loc THEN walk_over_gap(loc, t, p, t_add + 1, r1, r2)
    ELSE LET room == loc[t + t_add]
         IN  IF p[t_add + 1]
             THEN LET n1 == IF r1 = None THEN room ELSE r1
                  IN  IF n1 # room THEN [flag |-> TRUE, r1 |-> n1]
                      ELSE walk_over_gap(loc, t, p, t_add + 1, n1, r2)
             ELSE LET n2 == IF r2 = None THEN room ELSE r2
                  IN  IF n2 = r1 THEN [flag |-> TRUE, r1 |-> r1]
                      ELSE IF n2 # room THEN [flag |-> TRUE, r1 |-> r1]
                      ELSE walk_over_gap(loc, t, p, t_add + 1, r1, n2)

\* the walk over one pattern p from offset t_add on: flag is TRUE when the
\* pattern does not apply
RECURSIVE walk(_, _, _, _, _, _)
walk(loc, t, p, t_add, r1, r2) ==
    IF t_add = Len(p) THEN [flag |-> FALSE, r1 |-> r1]
    ELSE IF (t + t_add) \notin DOMAIN loc THEN [flag |-> TRUE, r1 |-> r1]
    ELSE LET room == loc[t + t_add]
         IN  IF p[t_add + 1]
             THEN LET n1 == IF r1 = None THEN room ELSE r1
                  IN  IF n1 # room THEN [flag |-> TRUE, r1 |-> n1]
                      ELSE walk(loc, t, p, t_add + 1, n1, r2)
             ELSE LET n2 == IF r2 = None THEN room ELSE r2
                  IN  IF n2 = r1 THEN [flag |-> TRUE, r1 |-> r1]
                      ELSE IF n2 # room THEN [flag |-> TRUE, r1 |-> r1]
                      ELSE walk(loc, t, p, t_add + 1, r1, n2)

\* rewrite that changes the first False position only
rewrite_first(loc, t, p, r1) ==
    LET falses == {k \in 0 .. (Len(p) - 1) : ~p[k + 1]}
        written == {t + k : k \in {m \in falses : \A n \in falses : m <= n}}
    IN  [u \in DOMAIN loc \cup written |-> IF u \in written THEN r1 ELSE loc[u]]

\* rewrite that stores room 0 instead of r1
rewrite_zero(loc, t, p, r1) ==
    LET written == {t + t_add : t_add \in {k \in 0 .. (Len(p) - 1) : ~p[k + 1]}}
    IN  [u \in DOMAIN loc \cup written |-> IF u \in written THEN 0 ELSE loc[u]]

\* "change room B to room A": every False position of the window becomes r1
rewrite(loc, t, p, r1) ==
    LET written == {t + t_add : t_add \in {k \in 0 .. (Len(p) - 1) : ~p[k + 1]}}
    IN  [u \in DOMAIN loc \cup written |-> IF u \in written THEN r1 ELSE loc[u]]

\* the loop over the patterns from the k-th on
RECURSIVE try_patterns(_, _, _, _)
try_patterns(loc, t, patterns, k) ==
    IF k > Len(patterns) THEN [pattern_exists |-> 0, loc |-> loc]
    ELSE LET w == walk(loc, t, patterns[k], 0, None, None)
         IN  IF w.flag = FALSE
             THEN [pattern_exists |-> 1, loc |-> rewrite(loc, t, patterns[k], w.r1)]
             ELSE try_patterns(loc, t, patterns, k + 1)

\* smooth_location(i, t, patterns) on the locations loc of person i
smooth_location(loc, t, patterns) == try_patterns(loc, t, patterns, 1)

\* ------------------------------------------------------------ the inputs

\* the lines the raw mote files may hold (sender id, power, time): person 1 sees
\* the motes 2 and 3 and the stationary motes, person 2 the stationary motes
FileLines ==
    {[receiver_id |-> 1, cur_t |-> u, cur_id |-> s, power |-> 0] :
        u \in Times, s \in Motes \ {1}}
    \cup
    {[receiver_id |-> r, cur_t |-> u, cur_id |-> s, power |-> w] :
        r \in Receivers, u \in Times, s \in Beacons, w \in Powers}

\* the lines of the files the main program reads in this model
SampleLines ==
    {[receiver_id |-> 1, cur_t |-> 0, cur_id |-> 10050, power |-> 500],
     [receiver_id |-> 1, cur_t |-> 1, cur_id |-> 10051, power |-> 500],
     [receiver_id |-> 1, cur_t |-> 2, cur_id |-> 10050, power |-> 500],
     [receiver_id |-> 1, cur_t |-> 1, cur_id |-> 2, power |-> 0],
     [receiver_id |-> 2, cur_t |-> 1, cur_id |-> 10051, power |-> 500],
     [receiver_id |-> 2, cur_t |-> 3, cur_id |-> 3, power |-> 0]}

\* the kernels handed to identify_location: offsets are distinct, weights >= 0
Kernels ==
    {DefaultKernel, << <<0, 1>> >>, << <<0, 0>> >>, << <<-1, 1>>, <<0, 2>> >>}

\* the Signal objects a caller may hand to add_signal
SignalObjects ==
    {[obj |-> o, TYPE |-> k, global_time |-> u, receiver_id |-> r,
      sender_id |-> IF k = "stationary" THEN 10050 ELSE 3,
      power |-> IF k = "stationary" THEN 500 ELSE 0] :
        o \in 1 .. 2, k \in {"mobile", "stationary", "unknown"},
        u \in Times, r \in Receivers}

\* the patterns handed to smooth_location: up to the length of the patterns of
\* the main loop, with a True label (r1 is read at the first True position)
PatternLen == 4

Patterns ==
    {p \in UNION {[1 .. n -> BOOLEAN] : n \in 1 .. PatternLen} :
        \E k \in DOMAIN p : p[k]}

PatternLists ==
    {<<p>> : p \in Patterns}
    \cup {DefaultPatterns,
          << <<TRUE, TRUE, FALSE, TRUE>>, <<TRUE, FALSE, TRUE, TRUE>> >>,
          << <<TRUE, FALSE>>, <<TRUE, FALSE, FALSE>> >>,
          << <<TRUE, FALSE, FALSE>>, <<TRUE, FALSE>> >>,
          << <<FALSE, TRUE>>, <<TRUE, TRUE>> >>}

\* the dicts t -> room id over the timestamps S
LocationsOver(S) == [S -> RoomIds]

NoCall == [op |-> "none"]

\* ---------------------------------------------------------- the actions

\* AllData() and add_sequence(Receiver_sequence(r)) for every person
InitData ==
    /\ sequences = [r \in Receivers |-> EmptyDict]
    /\ locations = [r \in Receivers |-> EmptyDict]
    /\ todo = {}
    /\ person = 0
    /\ tstep = 0
    /\ cnt = 0
    /\ ret = NoCall
    /\ smoothed = {}
    /\ corrected = FALSE

\* one more line of a raw mote file is read
ReadLine(lines) ==
    /\ pc = "read"
    /\ NumSignals(sequences) < MaxRecords
    /\ \E l \in lines :
          LET r == read_line(sequences, l.receiver_id, l.cur_t, l.cur_id, l.power)
          IN  /\ sequences' = r.store
              /\ pc' = IF r.exit THEN "exit" ELSE "read"
    /\ UNCHANGED <<locations, todo, person, tstep, cnt, ret, smoothed, corrected>>

\* for i in data.sequences.keys(): the loop is entered
StartMain ==
    /\ pc = "read"
    /\ pc' = "main"
    /\ todo' = DOMAIN sequences
    /\ UNCHANGED <<sequences, locations, person, tstep, cnt, ret, smoothed, corrected>>

\* the next person, in the order the dict yields them
NextPerson ==
    /\ pc = "main"
    /\ \E i \in todo :
          /\ person' = i
          /\ todo' = todo \ {i}
    /\ tstep' = 0
    /\ pc' = "identify"
    /\ UNCHANGED <<sequences, locations, cnt, ret, smoothed, corrected>>

\* the first inner loop stopping one timestamp early
IdentifyRangeShort(t) == t = RangeLen - 1

\* for t in range(600,3000) of the first inner loop is exhausted
IdentifyRangeDone(t) == t = RangeLen

\* for t in range(600,3000) of the smoothing loop is exhausted
SmoothRangeDone(t) == t = RangeLen

\* data.identify_location(i, t, kernel) of the first inner loop; an exception
\* it raises ends the program
IdentifyStep ==
    /\ pc = "identify"
    /\ ~IdentifyRangeDone(tstep)
    /\ \E order \in Orders(signal_rooms(sequences, person, tstep, DefaultKernel)) :
          LET r == identify_location(sequences, person, tstep, DefaultKernel, order)
          IN  /\ ret' = [op |-> "identify", i |-> person, t |-> tstep,
                         kernel |-> DefaultKernel, order |-> order,
                         raised |-> r.raised, max_id |-> r.max_id]
              /\ locations' = IF r.raised THEN locations
                              ELSE [locations EXCEPT ![person] = Put(@, tstep, r.max_id)]
              /\ pc' = IF r.raised THEN "crash" ELSE "identify"
              /\ tstep' = IF r.raised THEN tstep ELSE tstep + 1
    /\ UNCHANGED <<sequences, todo, person, cnt, smoothed, corrected>>

\* cnt = 1 after the first inner loop
IdentifyEnd ==
    /\ pc = "identify"
    /\ IdentifyRangeDone(tstep)
    /\ cnt' = 1
    /\ pc' = "while"
    /\ UNCHANGED <<sequences, locations, todo, person, tstep, ret, smoothed, corrected>>

\* while cnt > 0
LoopContinues(c) == c > 0

WhileEnter ==
    /\ pc = "while"
    /\ LoopContinues(cnt)
    /\ cnt' = 0
    /\ tstep' = 0
    /\ pc' = "smooth"
    /\ UNCHANGED <<sequences, locations, todo, person, ret, smoothed, corrected>>

\* cnt = ... in place of cnt += ...
count_last(c, pattern_exists) == pattern_exists

\* cnt += ...
count(c, pattern_exists) == c + pattern_exists

\* cnt += data.smooth_location(i, t, patterns)
SmoothStep ==
    /\ pc = "smooth"
    /\ ~SmoothRangeDone(tstep)
    /\ LET r == smooth_location(locations[person], tstep, DefaultPatterns)
       IN  /\ ret' = [op |-> "smooth", i |-> person, t |-> tstep,
                      patterns |-> DefaultPatterns, pre |-> locations[person],
                      pattern_exists |-> r.pattern_exists]
           /\ locations' = [locations EXCEPT ![person] = r.loc]
           /\ cnt' = count(cnt, r.pattern_exists)
    /\ tstep' = tstep + 1
    /\ smoothed' = smoothed \cup {person}
    /\ UNCHANGED <<sequences, todo, person, pc, corrected>>

\* print "Corrected", cnt, "patterns"
PassEnd ==
    /\ pc = "smooth"
    /\ SmoothRangeDone(tstep)
    /\ pc' = "while"
    /\ corrected' = (corrected \/ cnt > 0)
    /\ UNCHANGED <<sequences, locations, todo, person, tstep, cnt, ret, smoothed>>

WhileExit ==
    /\ pc = "while"
    /\ ~LoopContinues(cnt)
    /\ pc' = "main"
    /\ UNCHANGED <<sequences, locations, todo, person, tstep, cnt, ret, smoothed, corrected>>

\* data.write_to_files(...) after the loop over the persons
WriteFiles ==
    /\ pc = "main"
    /\ todo = {}
    /\ pc' = "done"
    /\ UNCHANGED <<sequences, locations, todo, person, tstep, cnt, ret, smoothed, corrected>>

\* the main program
Init == InitData /\ pc = "read"

Next ==
    \/ ReadLine(SampleLines)
    \/ StartMain
    \/ NextPerson
    \/ IdentifyStep
    \/ IdentifyEnd
    \/ WhileEnter
    \/ SmoothStep
    \/ PassEnd
    \/ WhileExit
    \/ WriteFiles

Spec == Init /\ [][Next]_vars

\* ---- the smoothing loop of one person, from any locations over the range

InitLoop ==
    /\ sequences = [r \in Receivers |-> EmptyDict]
    /\ \E loc \in LocationsOver(Range) :
          locations = [r \in Receivers |-> IF r = 1 THEN loc ELSE EmptyDict]
    /\ todo = {}
    /\ person = 1
    /\ tstep = RangeLen
    /\ cnt = 1
    /\ ret = NoCall
    /\ smoothed = {}
    /\ corrected = FALSE
    /\ pc = "while"

NextLoop ==
    \/ WhileEnter
    \/ SmoothStep
    \/ PassEnd
    \/ WhileExit
    \/ WriteFiles

SpecLoop == InitLoop /\ [][NextLoop]_vars /\ WF_vars(NextLoop)

\* ---- smooth_location called by a caller, on any locations and patterns

InitSmooth ==
    /\ sequences = [r \in Receivers |-> EmptyDict]
    /\ \E S \in SUBSET Range : \E loc \in LocationsOver(S) :
          locations = [r \in Receivers |-> IF r = 1 THEN loc ELSE EmptyDict]
    /\ todo = {}
    /\ person = 1
    /\ tstep = 0
    /\ cnt = 0
    /\ ret = NoCall
    /\ smoothed = {}
    /\ corrected = FALSE
    /\ pc = "smooth_call"

SmoothCall ==
    /\ pc = "smooth_call"
    /\ \E t \in Range : \E patterns \in PatternLists :
          LET r == smooth_location(locations[person], t, patterns)
          IN  /\ ret' = [op |-> "smooth", i |-> person, t |-> t,
                         patterns |-> patterns, pre |-> locations[person],
                         pattern_exists |-> r.pattern_exists]
              /\ locations' = [locations EXCEPT ![person] = r.loc]
    /\ smoothed' = smoothed \cup {person}
    /\ pc' = "smooth_returned"
    /\ UNCHANGED <<sequences, todo, person, tstep, cnt, corrected>>

NextSmooth == SmoothCall

SpecSmooth == InitSmooth /\ [][NextSmooth]_vars

\* ---- identify_location called by a caller, on any store and kernel

IdentifyCall ==
    /\ pc = "read"
    /\ \E i \in {1} : \E t \in Times : \E kernel \in Kernels :
       \E order \in Orders(signal_rooms(sequences, i, t, kernel)) :
          LET r == identify_location(sequences, i, t, kernel, order)
          IN  /\ ret' = [op |-> "identify", i |-> i, t |-> t,
                         kernel |-> kernel, order |-> order,
                         raised |-> r.raised, max_id |-> r.max_id]
              /\ locations' = IF r.raised THEN locations
                              ELSE [locations EXCEPT ![i] = Put(@, t, r.max_id)]
              /\ pc' = IF r.raised THEN "crash" ELSE "identified"
    /\ UNCHANGED <<sequences, todo, person, tstep, cnt, smoothed, corrected>>

InitIdentify == InitData /\ pc = "read"

NextIdentify ==
    \/ ReadLine(FileLines)
    \/ IdentifyCall

SpecIdentify == InitIdentify /\ [][NextIdentify]_vars

\* ---- Signal objects inserted by a caller into the Signals object of (r, t)

InsertSignal ==
    /\ pc = "build"
    /\ NumSignals(sequences) < MaxSignals
    /\ \E r \in Receivers : \E u \in Times : \E signal \in SignalObjects :
          LET seq == sequences[r]
              box == IF u \in DOMAIN seq THEN seq[u] ELSE Signals(u, r)
              added == add_signal(box, signal)
              stored == add_signals(r, seq, added.box)
              exit == added.exit \/ stored.exit
          IN  /\ ret' = [op |-> "add_signal", receiver_id |-> r, global_time |-> u,
                         signal |-> signal, pre |-> sequences, exit |-> exit]
              /\ sequences' = IF exit THEN sequences
                              ELSE [sequences EXCEPT ![r] = stored.seq]
              /\ pc' = IF exit THEN "exit" ELSE "build"
    /\ UNCHANGED <<locations, todo, person, tstep, cnt, smoothed, corrected>>

InitBuild == InitData /\ pc = "build"

NextBuild == InsertSignal

SpecBuild == InitBuild /\ [][NextBuild]_vars

\* ------------------------------------------------------------ the claims

\* one outer pass of the smoothing loop from timestamp t on: cnt = 0, then
\* cnt += smooth_location(i, t, patterns) for every t of the range
RECURSIVE outer_pass(_, _, _)
outer_pass(loc, t, c) ==
    IF SmoothRangeDone(t) THEN [cnt |-> c, loc |-> loc]
    ELSE LET r == smooth_location(loc, t, DefaultPatterns)
         IN  outer_pass(r.loc, t + 1, c + r.pattern_exists)

\* the timestamps of the window of pattern p at t
Window(t, p) == t .. (t + Len(p) - 1)

\* number of adjacent timestamps of loc that hold different rooms
Alternations(loc) ==
    Cardinality({u \in DOMAIN loc : (u + 1) \in DOMAIN loc /\ loc[u] # loc[u + 1]})

\* the window of p at t is fully present in loc, every True position holds one
\* room r1 and every False position one room r2 # r1
Applies(loc, t, p) ==
    /\ Window(t, p) \subseteq DOMAIN loc
    /\ \E r1, r2 \in RoomIds :
          /\ r1 # r2
          /\ \A k \in DOMAIN p : loc[t + k - 1] = IF p[k] THEN r1 ELSE r2

\* the room the True positions of the window of p at t hold
RoomOne(loc, t, p) ==
    loc[t + (CHOOSE k \in DOMAIN p : p[k] /\ \A m \in DOMAIN p : p[m] => k <= m) - 1]

\* C1: under the default patterns the smoothing loop "while cnt > 0" exits for
\* every assignment of rooms to the range: the program gets past the loop.
C1_Termination == <>(pc = "done")

\* a run in which a pass counted a correction and the loop was left
C1_Witness == pc = "done" /\ corrected

\* C2: once the loop has converged, one more outer pass counts no correction
\* and leaves the locations of the person as they are.
C2_FixedPoint ==
    pc \in {"main", "done"} =>
        LET again == outer_pass(locations[person], 0, 0)
        IN  again.cnt = 0 /\ again.loc = locations[person]

\* the loop converged after a correcting pass, on locations that still alternate
C2_Witness ==
    /\ pc = "main"
    /\ corrected
    /\ person \in smoothed
    /\ Alternations(locations[person]) > 0

C4_GapNoCorruption ==
    (/\ ret.op = "smooth"
     /\ \A k \in DOMAIN ret.patterns :
            ~(Window(ret.t, ret.patterns[k]) \subseteq DOMAIN ret.pre))
    => (ret.pattern_exists = 0 /\ locations[ret.i] = ret.pre)

\* the locations miss t = 2, the default patterns were tried at t = 0
C4_Witness ==
    /\ ret.op = "smooth"
    /\ ret.t = 0
    /\ ret.patterns = DefaultPatterns
    /\ DOMAIN ret.pre = Range \ {2}
    /\ ret.pre[0] = ret.pre[3] /\ ret.pre[1] # ret.pre[0]
    /\ ret.pattern_exists = 0
    /\ locations[ret.i] = ret.pre

\* the signal identify_location aggregates for room r, as numerator over
\* TotalWeighted: the sum over the kernel entries whose timestamp has a Signals
\* object and over the contacts there of power * weight
AggregatedNum(store, i, t, kernel, r) ==
    SumSeq([k \in 1 .. Len(kernel) |->
               LET u == t + kernel[k][1]
                   cs == <<i>> \o return_neighbor_ids(store[i], u)
               IN  IF u \notin DOMAIN store[i] THEN 0
                   ELSE SumSeq([j \in 1 .. Len(cs) |->
                                   LET rooms == return_nearest_rooms(store[cs[j]], u)
                                   IN  IF r \in DOMAIN rooms
                                       THEN rooms[r] * kernel[k][2] ELSE 0],
                               Len(cs))],
           Len(kernel))

\* totalWeightedObservations
TotalWeighted(store, i, t, kernel) ==
    SumSeq([k \in 1 .. Len(kernel) |->
               LET u == t + kernel[k][1]
               IN  IF u \notin DOMAIN store[i] THEN 0
                   ELSE kernel[k][2] * (1 + Len(return_neighbor_ids(store[i], u)))],
           Len(kernel))

\* the rooms some contact of the window reports
RoomsSeen(store, i, t, kernel) ==
    {r \in Beacons :
        \E k \in 1 .. Len(kernel) :
            LET u == t + kernel[k][1]
            IN  /\ u \in DOMAIN store[i]
                /\ \E c \in {i} \cup {store[i][u].mobile[j].sender_id :
                                        j \in 1 .. Len(store[i][u].mobile)} :
                       r \in DOMAIN return_nearest_rooms(store[c], u)}

\* C5: identify_location returns 0 when no room has a signal or the largest
\* aggregated signal is below the threshold, otherwise the first room, in the
\* order the rooms are visited, whose aggregated signal is the largest; the
\* value returned is stored as locations[i][t].
C5_RoomSelection ==
    (ret.op = "identify" /\ ~ret.raised) =>
        LET seen == RoomsSeen(sequences, ret.i, ret.t, ret.kernel)
            agg(r) == AggregatedNum(sequences, ret.i, ret.t, ret.kernel, r)
            total == TotalWeighted(sequences, ret.i, ret.t, ret.kernel)
            below == \A r \in seen : agg(r) < THRESHOLD * total
            pos(r) == CHOOSE k \in DOMAIN ret.order : ret.order[k] = r
        IN  /\ locations[ret.i][ret.t] = ret.max_id
            /\ IF seen = {} \/ below THEN ret.max_id = 0
               ELSE /\ ret.max_id \in seen
                    /\ \A r \in seen : agg(r) <= agg(ret.max_id)
                    /\ \A r \in seen : agg(r) = agg(ret.max_id) => pos(ret.max_id) <= pos(r)

\* the scenario of the specification: the receiver reports room 10050 at 5 units,
\* its contact 2 at 1 unit, kernel [(0,1)]: 2 weighted observations, 3 units, room 0
C5_Witness ==
    /\ ret.op = "identify" /\ ~ret.raised
    /\ ret.kernel = << <<0, 1>> >>
    /\ ret.t \in DOMAIN sequences[ret.i]
    /\ return_neighbor_ids(sequences[ret.i], ret.t) = <<2>>
    /\ return_nearest_rooms(sequences[ret.i], ret.t) = (10050 :> 500)
    /\ return_nearest_rooms(sequences[2], ret.t) = (10050 :> 100)
    /\ TotalWeighted(sequences, ret.i, ret.t, ret.kernel) = 2
    /\ AggregatedNum(sequences, ret.i, ret.t, ret.kernel, 10050) = 600
    /\ ret.max_id = 0
    /\ locations[ret.i][ret.t] = 0

\* C6: identify_location completes and returns a room id for every store,
\* timestamp and kernel, whatever data is missing.
C6_IdentifyNeverRaises ==
    ret.op = "identify" => (~ret.raised /\ ret.max_id \in RoomIds)

\* C7: a Signal object whose receiver, time or type does not fit fails only its
\* own insertion: the store is as before and the run goes on.
C7_IntegrityErrorIsLocal ==
    (/\ ret.op = "add_signal"
     /\ \/ ret.signal.receiver_id # ret.receiver_id
        \/ ret.signal.global_time # ret.global_time
        \/ ret.signal.TYPE \notin {"mobile", "stationary"})
    => (sequences = ret.pre /\ pc # "exit")

\* C8: smooth_location is called on a person only when identify_location has
\* stored a room for every timestamp of the range, and identify_location is
\* never called on a person smooth_location has been called on.
C8_EstimateBeforeSmooth ==
    /\ \A r \in smoothed : DOMAIN locations[r] = Range
    /\ ret.op = "identify" => ret.i \notin smoothed

\* both persons were estimated and smoothed, the program is through
C8_Witness == pc = "done" /\ smoothed = Receivers /\ corrected

\* C9 as stated: whatever the patterns, a call that returns 1 leaves strictly
\* fewer alternations and changes an entry.
C9_EveryApplicationReduces ==
    (ret.op = "smooth" /\ ret.pattern_exists = 1) =>
        /\ Alternations(locations[ret.i]) < Alternations(ret.pre)
        /\ locations[ret.i] # ret.pre

\* a pattern that starts and ends with True and has a False label
Bracketed(p) == p[1] /\ p[Len(p)] /\ \E k \in DOMAIN p : ~p[k]

\* C9 as amended: when every pattern of the list starts and ends with a True
\* label and has a False label, a call that returns 1 leaves strictly fewer
\* alternations and changes an entry.
C9_BracketedReduces ==
    (/\ ret.op = "smooth"
     /\ ret.pattern_exists = 1
     /\ \A k \in DOMAIN ret.patterns : Bracketed(ret.patterns[k]))
    => /\ Alternations(locations[ret.i]) < Alternations(ret.pre)
       /\ locations[ret.i] # ret.pre

\* (True,False,False,True) applied inside a longer sequence
C9_Witness ==
    /\ ret.op = "smooth"
    /\ ret.pattern_exists = 1
    /\ ret.patterns = << <<TRUE, FALSE, FALSE, TRUE>> >>
    /\ ret.t = 1
    /\ DOMAIN ret.pre = Range
    /\ ret.pre[0] # ret.pre[1]
    /\ Alternations(locations[ret.i]) = Alternations(ret.pre) - 2

====
